---- MODULE Spec2Model ----
(***************************************************************************)
(* Sparse multivariate polynomials over a coefficient ring (src/main.rs).  *)
(* A polynomial is a hash map from monomials (exponent vectors) to         *)
(* coefficients.  The coefficient type K is generic in the source; here it *)
(* is the ring of integers modulo K, for K a field (3) and for K a ring    *)
(* with zero divisors (4).  The exponent type P is a fixed-width unsigned  *)
(* integer (u32 in main), narrowed here to ExpWidth bits.                  *)
(***************************************************************************)
EXTENDS Integers, Sequences, FiniteSets, TLC

VARIABLES K, overflow_checks, f, g, h, res, res2, op, status, raw, carried, text, rebinds

vars == <<K, overflow_checks, f, g, h, res, res2, op, status, raw, carried, text, rebinds>>

(* ------------------------------ bounds --------------------------------- *)
\* number of variables of the ring context (your_ring: vars a, b)
NumVars == 2
\* width in bits of the exponent type P
ExpWidth == 2
\* largest total degree of a monomial of an initial operand
MaxDeg == 1
\* largest number of terms of an operand
MaxTerms == 2
\* largest number of times a result is bound back to an operand
MaxRebinds == 1
\* largest length of a raw term list
MaxRaw == 2

\* the variable names of the ring context
Vars == <<"a", "b">>

\* the coefficient rings Z/n the generic parameter K is instantiated with
Moduli == {3, 4}

(* ------------------------- coefficient ring K -------------------------- *)
Coeffs == 0 .. (K - 1)
\* K::add / AddAssign
RAdd(a, b) == (a + b) % K
\* K::sub
RSub(a, b) == (a - b + K) % K
\* K::mul
RMul(a, b) == (a * b) % K
\* Zero::is_zero
RIsZero(c) == c = 0
\* One::is_one
RIsOne(c) == c = 1 % K

(* ------------------------------ monomials ------------------------------ *)
ExpMax == (2 ^ ExpWidth) - 1
Exps == 0 .. ExpMax
Monomial == [1 .. NumVars -> Exps]

RECURSIVE Degree(_, _)
Degree(m, i) == IF i > Len(m) THEN 0 ELSE m[i] + Degree(m, i + 1)

InitMonomials == {m \in Monomial : Degree(m, 1) <= MaxDeg}

Min(a, b) == IF a < b THEN a ELSE b

\* zip(m1.powers, m2.powers) stops at the shorter vector
ZipLen(m1, m2) == Min(Len(m1), Len(m2))

\* some *m1 + *m2 of the zip exceeds the exponent type's maximum
Overflows(m1, m2) == \E i \in 1 .. ZipLen(m1, m2) : m1[i] + m2[i] > ExpMax

\* prod_monomial as a build without overflow checks computes it: the
\* primitive addition wraps modulo 2^ExpWidth
WrapProduct(m1, m2) == [i \in 1 .. ZipLen(m1, m2) |-> (m1[i] + m2[i]) % (2 ^ ExpWidth)]

(* ------------------------------ term maps ------------------------------ *)
Empty == [m \in {} |-> 0]

\* HashMap::insert / OccupiedEntry::get_mut assignment
Put(terms, m, c) == [x \in (DOMAIN terms) \cup {m} |-> IF x = m THEN c ELSE terms[x]]

\* OccupiedEntry::remove
Remove(terms, m) == [x \in (DOMAIN terms) \ {m} |-> terms[x]]

\* the documented invariant of Polynomial: only nonzero coefficients
IsReduced(p) == \A m \in DOMAIN p : ~RIsZero(p[m])

RECURSIVE Perms(_)
\* the orders in which HashMap::iter may yield the keys of a map
Perms(S) == IF S = {} THEN {<<>>}
            ELSE UNION {{<<x>> \o p : p \in Perms(S \ {x})} : x \in S}

Orders(p) == Perms(DOMAIN p)

\* the term maps with at most MaxTerms entries over the initial monomials
Polys(coeffs) ==
  UNION {[D -> coeffs] : D \in {D \in SUBSET InitMonomials : Cardinality(D) <= MaxTerms}}

(* ------------------------------ Add::add ------------------------------- *)
\* the loop body of add without the removal of an entry that sums to zero
AddEntryKeepsZero(terms, m, c2) ==
  IF m \in DOMAIN terms
    THEN Put(terms, m, RAdd(terms[m], c2))
    ELSE Put(terms, m, c2)

\* one iteration of the loop of add: the match on terms.entry(m)
AddEntry(terms, m, c2) ==
  IF m \in DOMAIN terms
    THEN LET s == RAdd(terms[m], c2)
         IN  IF RIsZero(s) THEN Remove(terms, m) ELSE Put(terms, m, s)
    ELSE Put(terms, m, c2)

RECURSIVE AddLoop(_, _, _, _)
\* for (m, c2) in rhs.terms.into_iter(), in iteration order o
AddLoop(terms, rhs, o, i) ==
  IF i > Len(o) THEN terms
  ELSE AddLoop(AddEntry(terms, o[i], rhs[o[i]]), rhs, o, i + 1)

\* self + rhs, with rhs iterated in order o
PolyAdd(self, rhs, o) == AddLoop(self, rhs, o, 1)

\* the results add can return, over the iteration orders of rhs
AddResults(self, rhs) == {PolyAdd(self, rhs, o) : o \in Orders(rhs)}

(* ------------------------------ Mul::mul ------------------------------- *)
\* one iteration of the inner loop of mul: the match on terms.entry(..)
MulEntry(terms, m, c1, c2) ==
  IF m \in DOMAIN terms
    THEN LET s == RAdd(terms[m], RMul(c1, c2))
         IN  IF RIsZero(s) THEN Remove(terms, m) ELSE Put(terms, m, s)
    ELSE Put(terms, m, RMul(c1, c2))

RECURSIVE MulInner(_, _, _, _, _, _)
\* for (m2, c2) in rhs.terms.iter(), in iteration order o2
MulInner(terms, m1, c1, rhs, o2, j) ==
  IF j > Len(o2) THEN terms
  ELSE MulInner(MulEntry(terms, WrapProduct(m1, o2[j]), c1, rhs[o2[j]]),
                m1, c1, rhs, o2, j + 1)

RECURSIVE MulOuter(_, _, _, _, _, _)
\* for (m1, c1) in self.terms.iter(), in iteration order o1
MulOuter(terms, self, rhs, o1, o2, i) ==
  IF i > Len(o1) THEN terms
  ELSE MulOuter(MulInner(terms, o1[i], self[o1[i]], rhs, o2, 1),
                self, rhs, o1, o2, i + 1)

\* a build with overflow checks panics at the first overflowing exponent sum
MulPanics(self, rhs, checks) ==
  checks /\ \E m1 \in DOMAIN self, m2 \in DOMAIN rhs : Overflows(m1, m2)

\* self * rhs with the operands iterated in orders o1 and o2
PolyMul(self, rhs, o1, o2, checks) ==
  IF MulPanics(self, rhs, checks)
    THEN [status |-> "panic", terms |-> Empty]
    ELSE [status |-> "ok", terms |-> MulOuter(Empty, self, rhs, o1, o2, 1)]

\* the outcomes mul can have, over the iteration orders of both operands
MulResults(self, rhs, checks) ==
  {PolyMul(self, rhs, o1, o2, checks) : o1 \in Orders(self), o2 \in Orders(rhs)}

(* ------------------------------ Display -------------------------------- *)
\* one variable of fmt_monomial: its name, and ^p unless p is one
FmtPower(i, p) == Vars[i] \o (IF p = 1 THEN "" ELSE "^" \o ToString(p))

RECURSIVE FmtPowers(_, _, _)
\* the loop of fmt_monomial over the nonzero powers; n counts those written
FmtPowers(m, i, n) ==
  IF i > Len(m) THEN ""
  ELSE IF m[i] = 0 THEN FmtPowers(m, i + 1, n)
  ELSE (IF n > 0 THEN "*" ELSE "") \o FmtPower(i, m[i]) \o FmtPowers(m, i + 1, n + 1)

\* PolynomialRing::fmt_monomial
FmtMonomial(m) ==
  IF \A i \in 1 .. Len(m) : m[i] = 0 THEN "1" ELSE FmtPowers(m, 1, 0)

\* one iteration of the loop of fmt; i counts from 1 here, from 0 in the source
FmtTerm(i, m, c) ==
  (IF ~RIsOne(c)
     THEN (IF i > 1 THEN "+" \o ToString(c) ELSE ToString(c)) \o "*"
     ELSE IF i > 1 THEN "+" ELSE "")
  \o FmtMonomial(m)

RECURSIVE FmtLoop(_, _, _)
\* for (i, (m, c)) in self.terms.iter().enumerate(), in iteration order o
FmtLoop(p, o, i) ==
  IF i > Len(o) THEN "" ELSE FmtTerm(i, o[i], p[o[i]]) \o FmtLoop(p, o, i + 1)

\* Display::fmt with the terms iterated in order o
PolyFmt(p, o) == IF DOMAIN p = {} THEN "0" ELSE FmtLoop(p, o, 1)

\* the texts fmt can produce, over the iteration orders of the map
FmtResults(p) == {PolyFmt(p, o) : o \in Orders(p)}

(* ------------------------- raw term lists ------------------------------ *)
\* a term: a (monomial, coefficient) pair of a literal term list
Terms(coeffs) == InitMonomials \X coeffs

\* the literal term lists of at most MaxRaw terms
RawLists(coeffs) == UNION {[1 .. n -> Terms(coeffs)] : n \in 0 .. MaxRaw}

\* HashMap::from(list): a later pair replaces an earlier one of the same key
RECURSIVE FromList(_, _, _)
FromList(terms, list, i) ==
  IF i > Len(list) THEN terms
  ELSE FromList(Put(terms, list[i][1], list[i][2]), list, i + 1)

\* every monomial of the list is distinct
Distinct(list) == \A i, j \in 1 .. Len(list) : list[i][1] = list[j][1] => i = j

\* no coefficient of the list is zero
NoZero(list) == \A i \in 1 .. Len(list) : ~RIsZero(list[i][2])

\* try_as_reduced: the data as Reduced, or not-reduced with the data
TryAsReducedResult(list) ==
  IF Distinct(list) /\ NoZero(list)
    THEN [status |-> "ok", terms |-> FromList(Empty, list, 1), carried |-> <<>>]
    ELSE [status |-> "not_reduced", terms |-> Empty, carried |-> list]

RECURSIVE ReduceFold(_, _, _)
\* the fold of reduce: sum the coefficients of each repeated monomial
ReduceFold(acc, list, i) ==
  IF i > Len(list) THEN acc
  ELSE LET m == list[i][1]
           c == list[i][2]
       IN  ReduceFold(Put(acc, m, IF m \in DOMAIN acc THEN RAdd(acc[m], c) ELSE c),
                      list, i + 1)

\* discard the entries whose accumulated coefficient is zero
DropZeros(acc) == [m \in {x \in DOMAIN acc : ~RIsZero(acc[x])} |-> acc[m]]

\* reduce: forced normalisation
ReduceResult(list) == DropZeros(ReduceFold(Empty, list, 1))

(* ------------------------------- state --------------------------------- *)
InitCommon ==
  /\ K \in Moduli
  /\ overflow_checks \in BOOLEAN
  /\ res = Empty
  /\ res2 = Empty
  /\ op = "init"
  /\ status = "ok"
  /\ carried = <<>>
  /\ text = <<>>
  /\ rebinds = 0

\* operands built directly from term data: zero coefficients are possible
Init ==
  /\ InitCommon
  /\ f \in Polys(Coeffs)
  /\ g \in Polys(Coeffs)
  /\ h = Empty
  /\ raw = <<>>

\* operands that satisfy the documented invariant
InitReduced ==
  /\ InitCommon
  /\ f \in Polys(Coeffs \ {0})
  /\ g \in Polys(Coeffs \ {0})
  /\ h = Empty
  /\ raw = <<>>

\* f + g
Add ==
  /\ status = "ok"
  /\ \E r \in AddResults(f, g) : res' = r
  /\ op' = "add"
  /\ UNCHANGED <<K, overflow_checks, f, g, h, res2, status, raw, carried, text, rebinds>>

\* f * g
Mul ==
  /\ status = "ok"
  /\ \E r \in MulResults(f, g, overflow_checks) :
        /\ res' = r.terms
        /\ status' = r.status
  /\ op' = "mul"
  /\ UNCHANGED <<K, overflow_checks, f, g, h, res2, raw, carried, text, rebinds>>

\* f - g: todo!()
Sub ==
  /\ status = "ok"
  /\ status' = "panic"
  /\ res' = Empty
  /\ op' = "sub"
  /\ UNCHANGED <<K, overflow_checks, f, g, h, res2, raw, carried, text, rebinds>>

\* Polynomial::zero(): todo!()
ZeroOp ==
  /\ status = "ok"
  /\ status' = "panic"
  /\ res' = Empty
  /\ op' = "zero"
  /\ UNCHANGED <<K, overflow_checks, f, g, h, res2, raw, carried, text, rebinds>>

\* f.is_zero(): todo!()
IsZeroOp ==
  /\ status = "ok"
  /\ status' = "panic"
  /\ res' = Empty
  /\ op' = "is_zero"
  /\ UNCHANGED <<K, overflow_checks, f, g, h, res2, raw, carried, text, rebinds>>

\* the result of an operator is bound and used as an operand of the next
\* (let bar = foo.clone(); foo * bar)
Rebind ==
  /\ status = "ok"
  /\ op \in {"add", "mul"}
  /\ rebinds < MaxRebinds
  /\ Cardinality(DOMAIN res) <= MaxTerms
  /\ \/ f' = res /\ g' = g
     \/ g' = res /\ f' = f
     \/ f' = res /\ g' = res
  /\ rebinds' = rebinds + 1
  /\ op' = "bind"
  /\ UNCHANGED <<K, overflow_checks, h, res, res2, status, raw, carried, text>>

Next == Add \/ Mul \/ Sub \/ ZeroOp \/ IsZeroOp \/ Rebind

Spec == Init /\ [][Next]_vars

SpecReduced == InitReduced /\ [][Next]_vars

\* add does no exponent arithmetic: the build profile is left at its default
InitAdd == InitReduced /\ overflow_checks

NextAdd == Add

SpecAdd == InitAdd /\ [][NextAdd]_vars

\* the harness of the distributive law: f * (g + h) and f * g + f * h
Distrib ==
  /\ status = "ok"
  /\ op = "init"
  /\ \E s \in AddResults(g, h) :
       \E l \in MulResults(f, s, overflow_checks),
          p \in MulResults(f, g, overflow_checks),
          q \in MulResults(f, h, overflow_checks) :
         IF l.status = "panic" \/ p.status = "panic" \/ q.status = "panic"
           THEN /\ status' = "panic"
                /\ res' = Empty
                /\ res2' = Empty
           ELSE /\ status' = "ok"
                /\ res' = l.terms
                /\ \E r \in AddResults(p.terms, q.terms) : res2' = r
  /\ op' = "distrib"
  /\ UNCHANGED <<K, overflow_checks, f, g, h, raw, carried, text, rebinds>>

\* operands of the distributive law, all reduced
InitDistrib ==
  /\ InitCommon
  /\ f \in Polys(Coeffs \ {0})
  /\ g \in Polys(Coeffs \ {0})
  /\ h \in Polys(Coeffs \ {0})
  /\ raw = <<>>

NextDistrib == Distrib

SpecDistrib == InitDistrib /\ [][NextDistrib]_vars

\* println!("f = {f}"); println!("g = {g}")
Println ==
  /\ status = "ok"
  /\ op = "init"
  /\ \E t1 \in FmtResults(f), t2 \in FmtResults(g) : text' = <<t1, t2>>
  /\ op' = "fmt"
  /\ UNCHANGED <<K, overflow_checks, f, g, h, res, res2, status, raw, carried, rebinds>>

NextFmt == Println

\* rendering does no exponent arithmetic: the build profile is left at its default
InitFmt == InitReduced /\ overflow_checks

SpecFmt == InitFmt /\ [][NextFmt]_vars

\* a polynomial is built from a literal term list, as main builds f and g
Construct ==
  /\ status = "ok"
  /\ op = "init"
  /\ f' = FromList(Empty, raw, 1)
  /\ op' = "construct"
  /\ UNCHANGED <<K, overflow_checks, g, h, res, res2, status, raw, carried, text, rebinds>>

\* try_as_reduced on the literal term list
TryAsReduced ==
  /\ status = "ok"
  /\ op = "init"
  /\ LET r == TryAsReducedResult(raw)
     IN  /\ status' = r.status
         /\ res' = r.terms
         /\ carried' = r.carried
  /\ op' = "try_as_reduced"
  /\ UNCHANGED <<K, overflow_checks, f, g, h, res2, raw, text, rebinds>>

\* reduce on the literal term list, or on the list a failed try_as_reduced
\* handed back
Reduce ==
  /\ \/ status = "ok" /\ op = "init" /\ res' = ReduceResult(raw)
     \/ status = "not_reduced" /\ res' = ReduceResult(carried)
  /\ status' = "ok"
  /\ op' = "reduce"
  /\ UNCHANGED <<K, overflow_checks, f, g, h, res2, raw, carried, text, rebinds>>

\* a literal term list; no polynomial is built yet
InitRaw ==
  /\ InitCommon
  /\ overflow_checks
  /\ raw \in RawLists(Coeffs)
  /\ f = Empty
  /\ g = Empty
  /\ h = Empty

NextRaw == Construct \/ TryAsReduced \/ Reduce \/ Sub

SpecRaw == InitRaw /\ [][NextRaw]_vars

(* ------------------------------ claims --------------------------------- *)
\* C1: starting from reduced operands, every polynomial obtained by a
\* sequence of add and mul operations is reduced (no zero coefficient), for
\* every coefficient ring, rings with zero divisors included.
C1_ReducedClosed ==
  /\ IsReduced(f)
  /\ IsReduced(g)
  /\ (op \in {"add", "mul"} /\ status = "ok") => IsReduced(res)

\* the coefficient of m in p, zero when absent
CoeffOf(p, m) == IF m \in DOMAIN p THEN p[m] ELSE 0

\* the sum of the coefficients of m in f and in g
MergedCoeff(m) == RAdd(CoeffOf(f, m), CoeffOf(g, m))

\* C2: for reduced f and g, f + g contains a monomial m exactly when the sum
\* of its coefficients in f and in g (zero when absent) is nonzero, and maps
\* m to that sum.
C2_AddIsMerge ==
  op = "add" =>
    \A m \in (DOMAIN f) \cup (DOMAIN g) \cup (DOMAIN res) :
      /\ m \in DOMAIN res <=> ~RIsZero(MergedCoeff(m))
      /\ m \in DOMAIN res => res[m] = MergedCoeff(m)

\* an addition in which one monomial of both operands cancels and is absent
\* from the sum, and one monomial of the right operand alone keeps its coefficient
C2_Witness ==
  /\ op = "add"
  /\ \E m \in (DOMAIN f) \cap (DOMAIN g) : RIsZero(MergedCoeff(m)) /\ m \notin DOMAIN res
  /\ \E m \in (DOMAIN g) \ (DOMAIN f) : m \in DOMAIN res /\ res[m] = g[m]

\* the exact pointwise exponent sum, in unbounded arithmetic
ExactProduct(m1, m2) == [i \in 1 .. ZipLen(m1, m2) |-> m1[i] + m2[i]]

\* the pairs of terms of f and g whose exact product monomial is m
PairsFor(m) ==
  {pr \in (DOMAIN f) \X (DOMAIN g) : ExactProduct(pr[1], pr[2]) = m}

RECURSIVE RingSum(_)
\* the ring sum of coeff_f(m1) * coeff_g(m2) over a set of pairs
RingSum(S) ==
  IF S = {} THEN 0
  ELSE LET pr == CHOOSE x \in S : TRUE
       IN  RAdd(RMul(f[pr[1]], g[pr[2]]), RingSum(S \ {pr}))

ExactProducts == {ExactProduct(pr[1], pr[2]) : pr \in (DOMAIN f) \X (DOMAIN g)}

\* C3: for reduced f and g, f * g maps each monomial m to the ring sum of
\* the products of the coefficients of all pairs whose pointwise exponent sum
\* is m, and contains m exactly when that total is nonzero.
C3_MulIsBilinear ==
  op = "mul" =>
    /\ status = "ok"
    /\ DOMAIN res = {m \in ExactProducts : ~RIsZero(RingSum(PairsFor(m)))}
    /\ \A m \in DOMAIN res : res[m] = RingSum(PairsFor(m))

\* C4: when an operand of add or mul is unreduced, the result is reduced.
C4_NormalisesUnreduced ==
  (op \in {"add", "mul"} /\ status = "ok" /\ (~IsReduced(f) \/ ~IsReduced(g)))
    => IsReduced(res)

\* every coefficient c replaced by zero - c
Negated(p) == [m \in DOMAIN p |-> RSub(0, p[m])]

\* C5: f - g returns, without failing, f + g' where g' negates every
\* coefficient of g.
C5_SubIsAddNegated ==
  op = "sub" => (status = "ok" /\ res \in AddResults(f, Negated(g)))

\* C6: zero() is the empty term map, is_zero holds exactly for it, and
\* f + zero and zero + f equal f for every reduced f.
C6_AdditiveIdentity ==
  /\ op = "zero" => (status = "ok" /\ res = Empty)
  /\ op = "is_zero" => status = "ok"
  /\ (op = "add" /\ IsReduced(f) /\ g = Empty) => res = f
  /\ (op = "add" /\ IsReduced(g) /\ f = Empty) => res = g

\* the pointwise exponent sum saturated at the exponent type's maximum
SaturatedProduct(m1, m2) == [i \in 1 .. ZipLen(m1, m2) |-> Min(m1[i] + m2[i], ExpMax)]

\* C8: for reduced f, g, h the term map of f * (g + h) equals, entry for
\* entry, the term map of (f * g) + (f * h), rings with zero divisors included.
C8_LeftDistributive ==
  (op = "distrib" /\ status = "ok") => res = res2

\* C7: when an exponent sum of mul exceeds the exponent type's maximum, mul
\* fails explicitly or saturates; the result never holds the wrapped sum.
C7_NoSilentWrap ==
  (op = "mul" /\ \E m1 \in DOMAIN f, m2 \in DOMAIN g : Overflows(m1, m2)) =>
    \/ status = "panic"
    \/ \A m \in DOMAIN res :
         \E m1 \in DOMAIN f, m2 \in DOMAIN g : m = SaturatedProduct(m1, m2)

RECURSIVE LexLess(_, _, _)
\* m1 precedes m2 in the lexicographic order of exponent vectors
LexLess(m1, m2, i) ==
  IF i > Len(m1) THEN FALSE
  ELSE m1[i] < m2[i] \/ (m1[i] = m2[i] /\ LexLess(m1, m2, i + 1))

\* the keys of p in lexicographic order
LexOrder(p) ==
  CHOOSE o \in Orders(p) : \A i, j \in 1 .. Len(o) : i < j => LexLess(o[i], o[j], 1)

\* C10: the text of a polynomial is a function of its term map and variable
\* names, with the terms in lexicographic order of their exponent vectors, so
\* equal term maps render identically; the empty polynomial renders as "0".
C10_RenderDeterministic ==
  op = "fmt" =>
    /\ text[1] = PolyFmt(f, LexOrder(f))
    /\ text[2] = PolyFmt(g, LexOrder(g))
    /\ f = g => text[1] = text[2]
    /\ f = Empty => text[1] = "0"

RECURSIVE ListSum(_, _, _)
\* the ring sum of the coefficients of monomial m in a term list
ListSum(list, m, i) ==
  IF i > Len(list) THEN 0
  ELSE RAdd(IF list[i][1] = m THEN list[i][2] ELSE 0, ListSum(list, m, i + 1))

\* the canonical map of a term list: equal monomials summed, zeros dropped
Canonical(list) ==
  [m \in {x \in {list[i][1] : i \in 1 .. Len(list)} : ~RIsZero(ListSum(list, x, 1))}
     |-> ListSum(list, m, 1)]

\* C9: try_as_reduced is the only operation that fails; it succeeds, with the
\* same data, iff all monomials are distinct and no coefficient is zero, else
\* it returns not-reduced with the original list, whose reduce is canonical.
C9_TryAsReducedOnlyFailure ==
  /\ status # "ok" => op = "try_as_reduced"
  /\ op = "try_as_reduced" =>
       /\ status = "ok" <=> (Distinct(raw) /\ NoZero(raw))
       /\ status = "ok" => res = Canonical(raw)
       /\ status # "ok" => (status = "not_reduced" /\ carried = raw)
  /\ op = "reduce" => res = Canonical(raw)

====
